---- MODULE Spec2Model ----
(***************************************************************************)
(* Model of actix-web-validation: the Validated<T> extractor (legacy root, *)
(* validator, garde and custom backends), the per-kind error-handler slot  *)
(* kept in the application's app_data, and the default error rendering.    *)
(*                                                                         *)
(* Text is modelled as a sequence of tokens (strings): format! and join    *)
(* are concatenations of token sequences, "\n" and "\t" are tokens, and a  *)
(* message is a text without line breaks.                                  *)
(*                                                                         *)
(* Spec explores every outcome of a pipeline, SpecReg every registration   *)
(* history, SpecServe concurrent requests of one application, SpecLate     *)
(* slots changed under pending pipelines, SpecLive pipelines whose inner   *)
(* extraction resolves, SpecSide the four copies polled in lock step,      *)
(* SpecFlat the flattener on every tree of a bounded shape, SpecWrap a     *)
(* caller's use of a Validated value.                                      *)
(***************************************************************************)
EXTENDS Integers, Sequences, FiniteSets, TLC

(* ------------------------------ bounds --------------------------------- *)

\* number of requests (pipelines) served in the behaviours that explore every
\* outcome of one pipeline (Spec)
MaxReq == 1

\* number of requests served in the behaviours that explore every registration
\* history (SpecReg)
MaxRegReq == 1

\* number of requests served concurrently by one application (SpecServe)
MaxServeReq == 2

\* number of requests served while the registry is changed under them
\* (SpecLate)
MaxLateReq == 1

\* number of requests served in the behaviours in which every inner extraction
\* resolves (SpecLive)
MaxLiveReq == 1

\* largest index of a sequence-typed field that can hold an invalid element
\* (SpecFlat)
MaxIndex == 2

\* number of calls of the flattener on one tree (SpecFlat)
MaxCalls == 2

\* the largest number of a set
Max(S) == CHOOSE x \in S : \A y \in S : y <= x

\* the four copies of the extractor, in the order in which the side-by-side
\* run gives each a request: src/lib.rs, src/validator.rs, src/garde.rs,
\* src/custom.rs
SideKinds == <<"legacy", "validator", "garde", "custom">>

Req == 1..Max({MaxReq, MaxRegReq, MaxServeReq, MaxLateReq, MaxLiveReq, Len(SideKinds)})
OneReq == 1..MaxReq
RegReq == 1..MaxRegReq
ServeReq == 1..MaxServeReq
LateReq == 1..MaxLateReq
LiveReq == 1..MaxLiveReq
SideReq == 1..Len(SideKinds)

(* --------------------------- basic values ------------------------------ *)

None == "None"

\* the four copies of the extractor: src/lib.rs, src/validator.rs,
\* src/garde.rs, src/custom.rs
Kinds == {"legacy", "validator", "garde", "custom"}

\* caller-supplied handler values (Arc<dyn Fn(payload, &HttpRequest) -> Error>)
Handlers == {"h1", "h2"}

\* StatusCode::BAD_REQUEST
BAD_REQUEST == 400

NL == "\n"
TAB == "\t"
HEADER == "Validation errors in fields:"

\* decoded values the inner extractor can produce
Values == {"123456", "1234", "abcd", "order", "blank"}

\* names of the errors the inner extractor can produce
InnerErrorNames == {"JsonPayloadError"}

(* ------------------------- text helpers -------------------------------- *)

RECURSIVE Concat(_)
\* Vec<String>::concat: the token sequences of `parts` one after another
Concat(parts) ==
    IF parts = <<>> THEN <<>> ELSE Head(parts) \o Concat(Tail(parts))

RECURSIVE join(_, _)
\* [String]::join(sep): the parts with sep between consecutive parts
join(parts, sep) ==
    IF parts = <<>> THEN <<>>
    ELSE IF Len(parts) = 1 THEN parts[1]
    ELSE parts[1] \o <<sep>> \o join(Tail(parts), sep)

(* ------------------ failure payloads of the backends ------------------- *)

\* validator::ValidationError
VError(code, message) == [code |-> code, message |-> message]

\* ValidationErrorsKind::Field(Vec<ValidationError>)
Field(name, errs) ==
    [field |-> name, kind |-> "Field", errors |-> errs, sub |-> <<>>, list |-> {}]

\* ValidationErrorsKind::Struct(Box<ValidationErrors>)
Struct(name, tree) ==
    [field |-> name, kind |-> "Struct", errors |-> <<>>, sub |-> tree, list |-> {}]

\* ValidationErrorsKind::List(BTreeMap<usize, Box<ValidationErrors>>): the
\* map is the set of its (index, errors) entries, one per index
List(name, entries) ==
    [field |-> name, kind |-> "List", errors |-> <<>>, sub |-> <<>>, list |-> entries]

ListEntry(index, tree) == [index |-> index, errors |-> tree]

RECURSIVE btree_iter_rev(_)
\* mutant: the entries are visited from the largest index down
btree_iter_rev(list) ==
    IF list = {} THEN <<>>
    ELSE LET last == CHOOSE e \in list : \A f \in list : f.index <= e.index
         IN <<last>> \o btree_iter_rev(list \ {last})

RECURSIVE btree_iter(_)
\* BTreeMap::iter: the entries in ascending order of their key
btree_iter(list) ==
    IF list = {} THEN <<>>
    ELSE LET first == CHOOSE e \in list : \A f \in list : e.index <= f.index
         IN <<first>> \o btree_iter(list \ {first})

E_length == VError("length", None)
E_range == VError("range", "must be positive")
E_email == VError("email", "not an email")

\* impl Display for validator::ValidationError, as used by format!("{}", err)
DisplayVError(err) ==
    IF err.message # None THEN <<err.message>>
    ELSE <<"Validation error: ", err.code, " [", "{params}", "]">>

\* garde::Error
GError(message) == [message |-> message]

\* one (garde::Path, garde::Error) pair of a garde::Report
GEntry(path, message) == [path |-> path, error |-> GError(message)]

\* custom::ValidationError: the message is the text its author wrote
CError(message) == [message |-> message]

\* impl Display for custom::ValidationError: write!(f, "{}", self.message)
DisplayCError(err) == err.message

\* a validation outcome: Ok(()) or Err(e)
Ok == [ok |-> TRUE, e |-> <<>>]
Err(e) == [ok |-> FALSE, e |-> e]

\* validator::Validate::validate on the decoded values (ValidationErrors: the
\* sequence is the iteration order of the HashMap returned by errors())
validate_validator(data) ==
    CASE data = "123456" -> Ok
      [] data \in {"1234", "abcd"} -> Err(<<Field("name", <<E_length>>)>>)
      [] OTHER ->
            Err(<<Struct("order",
                         <<List("items",
                                {ListEntry(0, <<Field("qty", <<E_range>>)>>),
                                 ListEntry(2, <<Field("qty", <<E_range, E_length>>)>>)}),
                           Field("email", <<E_email>>)>>),
                  Field("name", <<E_length>>)>>)

\* garde::Validate::validate on the decoded values
validate_garde(data) ==
    CASE data = "123456" -> Ok
      [] data \in {"1234", "abcd"} ->
            Err(<<GEntry(<<"name">>, "length is lower than 5")>>)
      [] OTHER ->
            Err(<<GEntry(<<"order", ".", "items", "[", "2", "]">>, "must be positive"),
                  GEntry(<<"order", ".", "email">>, "not an email"),
                  GEntry(<<"name">>, "length is lower than 5")>>)

\* custom::Validate::validate on the decoded values; the implementor is free
\* to return Err with no ValidationError in the Vec
validate_custom(data) ==
    CASE data = "123456" -> Ok
      [] data = "blank" -> Err(<<>>)
      [] data = "1234" -> Err(<<CError(<<"name", " not long enough">>)>>)
      [] data = "abcd" -> Err(<<CError(<<"too short">>)>>)
      [] OTHER -> Err(<<CError(<<"must be positive">>),
                        CError(<<"name", " not long enough">>)>>)

(* ------------------ Option<T> of the flattener's arguments -------------- *)

Some(x) == [some |-> TRUE, v |-> x]
NoPath == [some |-> FALSE, v |-> <<>>]
NoIndent == [some |-> FALSE, v |-> 0]

\* mutant: the depth of the top level starts at one
unwrap_or_1(indent) == IF indent.some THEN indent.v ELSE 1

\* Option<u16>::unwrap_or(0)
unwrap_or_0(indent) == IF indent.some THEN indent.v ELSE 0

\* path.map(|path| [path, field].join(".")).unwrap_or_else(|| field.to_owned())
actual_path_of(path, field) ==
    IF path.some THEN join(<<path.v, <<field>>>>, ".") ELSE <<field>>

\* mutant: the index is appended as one more dotted component
indexed_path_dotted(actual_path, index) == actual_path \o <<".", ToString(index)>>

\* format!("{}[{}]", actual_path, index)
indexed_path(actual_path, index) == actual_path \o <<"[", ToString(index), "]">>

(* ------------------------- src/validator.rs ---------------------------- *)

RECURSIVE validator__flatten_errors_first_only(_, _, _)
\* mutant: only the first error of a field is kept
validator__flatten_errors_first_only(errors, path, indent) ==
    Concat([i \in 1..Len(errors) |->
        LET err == errors[i]
            ind == unwrap_or_0(indent)
            actual_path == actual_path_of(path, err.field)
        IN CASE err.kind = "Field" ->
                    IF err.errors = <<>> THEN <<>>
                    ELSE << <<ind, actual_path, err.errors[1]>> >>
             [] err.kind = "List" ->
                    LET list_error == btree_iter(err.list)
                    IN Concat([j \in 1..Len(list_error) |->
                        validator__flatten_errors_first_only(
                            list_error[j].errors,
                            Some(indexed_path(actual_path, list_error[j].index)),
                            Some(ind + 1))])
             [] OTHER ->
                    validator__flatten_errors_first_only(
                        err.sub, Some(actual_path), Some(ind + 1))])

RECURSIVE validator__flatten_errors(_, _, _)
\* validator::_flatten_errors: one (indent, path, error) per field error,
\* fields in the map's iteration order, list indices in the BTreeMap's order
validator__flatten_errors(errors, path, indent) ==
    Concat([i \in 1..Len(errors) |->
        LET err == errors[i]
            ind == unwrap_or_0(indent)
            actual_path == actual_path_of(path, err.field)
        IN CASE err.kind = "Field" ->
                    [j \in 1..Len(err.errors) |-> <<ind, actual_path, err.errors[j]>>]
             [] err.kind = "List" ->
                    LET list_error == btree_iter(err.list)
                    IN Concat([j \in 1..Len(list_error) |->
                        validator__flatten_errors(
                            list_error[j].errors,
                            Some(indexed_path(actual_path, list_error[j].index)),
                            Some(ind + 1))])
             [] OTHER ->
                    validator__flatten_errors(err.sub, Some(actual_path), Some(ind + 1))])

\* validator::flatten_errors
validator_flatten_errors(errors) == validator__flatten_errors(errors, NoPath, NoIndent)

\* mutant: the line is written without the tab
validator_line_no_tab(flat) == flat[2] \o <<": ">> \o DisplayVError(flat[3])

\* one line of validator's default body: format!("\t{}: {}", field, err)
validator_line(flat) == <<TAB>> \o flat[2] \o <<": ">> \o DisplayVError(flat[3])

\* impl ResponseError for validator::Error
validator_error_response(errors) ==
    LET flat == validator_flatten_errors(errors)
    IN [status |-> BAD_REQUEST,
        body |-> <<HEADER, NL>>
                 \o join([i \in 1..Len(flat) |-> validator_line(flat[i])], NL)]

(* --------------------------- src/error.rs ------------------------------ *)

RECURSIVE error__flatten_errors(_, _, _)
\* error::_flatten_errors (legacy root crate)
error__flatten_errors(errors, path, indent) ==
    Concat([i \in 1..Len(errors) |->
        LET err == errors[i]
            ind == unwrap_or_0(indent)
            actual_path == actual_path_of(path, err.field)
        IN CASE err.kind = "Field" ->
                    [j \in 1..Len(err.errors) |-> <<ind, actual_path, err.errors[j]>>]
             [] err.kind = "List" ->
                    LET list_error == btree_iter(err.list)
                    IN Concat([j \in 1..Len(list_error) |->
                        error__flatten_errors(
                            list_error[j].errors,
                            Some(indexed_path(actual_path, list_error[j].index)),
                            Some(ind + 1))])
             [] OTHER ->
                    error__flatten_errors(err.sub, Some(actual_path), Some(ind + 1))])

\* error::flatten_errors
error_flatten_errors(errors) == error__flatten_errors(errors, NoPath, NoIndent)

\* one line of the legacy default body: format!("\t{}: {}", field, err)
error_line(flat) == <<TAB>> \o flat[2] \o <<": ">> \o DisplayVError(flat[3])

\* impl ResponseError for error::Error (the Validate variant)
error_error_response(errors) ==
    LET flat == error_flatten_errors(errors)
    IN [status |-> BAD_REQUEST,
        body |-> <<HEADER, NL>>
                 \o join([i \in 1..Len(flat) |-> error_line(flat[i])], NL)]

(* --------------------------- src/garde.rs ------------------------------ *)

\* mutant: the line starts with a tab, as in the other backends
garde_line_with_tab(entry) == <<TAB>> \o entry.path \o <<": ">> \o <<entry.error.message>>

\* format!("{path}: {}", error.message())
garde_line(entry) == entry.path \o <<": ">> \o <<entry.error.message>>

\* impl ResponseError for garde::Error
garde_error_response(report) ==
    [status |-> BAD_REQUEST,
     body |-> <<HEADER, NL>> \o join([i \in 1..Len(report) |-> garde_line(report[i])], NL)]

(* --------------------------- src/custom.rs ----------------------------- *)

\* mutant: the line is the message without the tab
custom_line_no_tab(err) == DisplayCError(err)

\* format!("\t{}", err)
custom_line(err) == <<TAB>> \o DisplayCError(err)

\* mutant: the default response is built with another status
custom_error_response_422(errors) ==
    [status |-> 422,
     body |-> <<HEADER, NL>> \o join([i \in 1..Len(errors) |-> custom_line(errors[i])], NL)]

\* impl ResponseError for custom::Error
custom_error_response(errors) ==
    [status |-> BAD_REQUEST,
     body |-> <<HEADER, NL>> \o join([i \in 1..Len(errors) |-> custom_line(errors[i])], NL)]

(* --------------- the trees handed to flatten_errors -------------------- *)

\* mutant: the callee takes the map out of the caller's value
ref_ValidationErrors_taken(errors) == <<>>

\* errors: &ValidationErrors -- what a call through the shared reference
\* leaves in the caller's value
ref_ValidationErrors(errors) == errors

\* Vec<ValidationError> of a Field: one error, or two in either order
FieldErrorLists == {<<E_range>>, <<E_length, E_range>>}

Indices == 0..MaxIndex

\* the iteration orders of the maps that hold one field of `as`, one of `bs`,
\* or one of each
Arrange(as, bs) ==
    {<<a>> : a \in as} \cup {<<b>> : b \in bs}
    \cup {<<a, b>> : a \in as, b \in bs} \cup {<<b, a>> : a \in as, b \in bs}

\* ValidationErrors of one element of `items`: its field `qty`
ElementTrees == {<<Field("qty", errs)>> : errs \in FieldErrorLists}

\* the BTreeMaps of `items`: the invalid elements, by index
ItemsLists ==
    UNION {{ {ListEntry(i, f[i]) : i \in S} : f \in [S -> ElementTrees] } :
           S \in (SUBSET Indices) \ {{}}}

\* ValidationErrors of the struct `order`: its fields `items` and `email`
OrderTrees ==
    Arrange({List("items", l) : l \in ItemsLists},
            {Field("email", errs) : errs \in FieldErrorLists})

\* ValidationErrors of the payload: its fields `order` and `name`
Trees ==
    Arrange({Struct("order", t) : t \in OrderTrees},
            {Field("name", errs) : errs \in FieldErrorLists})

\* the two copies of the flattener
flatten_errors(kind, errors) ==
    IF kind = "legacy" THEN error_flatten_errors(errors)
    ELSE validator_flatten_errors(errors)

(* ------------------- values crossing the pipeline ---------------------- *)

\* web::Json<T>(pub T): the inner extractor's tuple struct around the payload
Json(payload) == <<payload>>

\* Deref::deref of the inner extractor: &Json(p) -> &p
Deref(data) == data[1]

\* pub struct Validated<T>(pub T)
Validated(data) == <<data>>

\* Validated::into_inner: self.0
Validated_into_inner(self) == self[1]

\* <Validated<T> as Deref>::deref: &self.0
Validated_deref(self) == self[1]

\* mutant: the write lands on a copy of the wrapped value
Validated_deref_mut_write_copy(self, value) == self

\* <Validated<T> as DerefMut>::deref_mut, and a write of `value` through the
\* &mut self.0 it returns
Validated_deref_mut_write(self, value) == [self EXCEPT ![1] = value]

\* struct ExamplePayload { name: String }
ExamplePayload(name) == [name |-> name]

\* #[derive(Debug)] on ExamplePayload: {:?} when ~alternate, {:#?} otherwise
ExamplePayload_fmt(self, alternate) ==
    IF alternate
    THEN <<"ExamplePayload", " {", NL, "    ", "name", ": ", "\"", self.name, "\"", ",", NL, "}">>
    ELSE <<"ExamplePayload", " { ", "name", ": ", "\"", self.name, "\"", " }">>

RECURSIVE PadAdapter(_, _)
\* core::fmt::builders::PadAdapter: four spaces are written at the start of
\* every line of the text written through it
PadAdapter(text, on_newline) ==
    IF text = <<>> THEN <<>>
    ELSE (IF on_newline THEN <<"    ">> ELSE <<>>)
         \o <<Head(text)>> \o PadAdapter(Tail(text), Head(text) = NL)

\* mutant: the wrapped value is printed without the wrapper's name
Validated_fmt_untagged(self, alternate) == ExamplePayload_fmt(self[1], alternate)

\* <Validated<T> as Debug>::fmt: f.debug_tuple("Validated").field(&self.0).finish()
\* for a formatter with the alternate flag (#) set or not
Validated_fmt(self, alternate) ==
    IF alternate
    THEN <<"Validated", "(", NL>>
         \o PadAdapter(ExamplePayload_fmt(self[1], TRUE), TRUE)
         \o <<",", NL>> \o <<")">>
    ELSE <<"Validated", "(">> \o ExamplePayload_fmt(self[1], FALSE) \o <<")">>

\* a value of the inner extractor's error type T::Error, with the response its
\* own ResponseError impl renders
InnerError(name) ==
    [origin |-> "inner", by |-> name, payload |-> <<>>, req |-> 0,
     response |-> [status |-> BAD_REQUEST, body |-> <<name>>]]

InnerErrors == {InnerError(name) : name \in InnerErrorNames}

\* <T::Error as Into<actix_web::Error>>::into: the inner error boxed as the
\* pipeline's error type, cause and response unchanged
inner_into(e) == [e EXCEPT !.origin = "extraction"]

\* status chosen by a caller-supplied handler's error
handler_status(h) == IF h = "h1" THEN 422 ELSE 400

\* (*error_handler)(e, &this.req): the caller's function applied to the
\* failure payload and the request handle; its result is opaque to the crate
call_handler(h, e, req) ==
    [origin |-> "handler", by |-> h, payload |-> e, req |-> req,
     response |-> [status |-> handler_status(h),
                   body |-> <<"{\"custom_message\":\"My custom message\"}", h>>]]

\* error::Error::from(e) then actix_web::Error::from(err)   (src/lib.rs 40-41)
error_Error_into(e) ==
    [origin |-> "default", by |-> "error::Error", payload |-> e, req |-> 0,
     response |-> error_error_response(e)]

\* validator::Error::from(e) then actix_web::Error::from(err)
validator_Error_into(e) ==
    [origin |-> "default", by |-> "validator::Error", payload |-> e, req |-> 0,
     response |-> validator_error_response(e)]

\* garde::Error::from(e) then actix_web::Error::from(err)
garde_Error_into(e) ==
    [origin |-> "default", by |-> "garde::Error", payload |-> e, req |-> 0,
     response |-> garde_error_response(e)]

\* custom::Error::from(e) then actix_web::Error::from(err)
custom_Error_into(e) ==
    [origin |-> "default", by |-> "custom::Error", payload |-> e, req |-> 0,
     response |-> custom_error_response(e)]

NoError ==
    [origin |-> None, by |-> None, payload |-> <<>>, req |-> 0,
     response |-> [status |-> 0, body |-> <<>>]]

\* Result<_, _>
ResOk(v) == [ok |-> TRUE, value |-> v, err |-> NoError]
ResErr(e) == [ok |-> FALSE, value |-> <<>>, err |-> e]

\* std::task::Poll
Pending == [state |-> "Pending", res |-> ResOk(<<>>)]
Ready(res) == [state |-> "Ready", res |-> res]
NotPolled == [state |-> None, res |-> ResOk(<<>>)]

\* what one poll of the inner extractor's future can return
InnerPolls ==
    {Pending}
    \cup {Ready(ResOk(Json(v))) : v \in Values}
    \cup {Ready(ResErr(e)) : e \in InnerErrors}

(* -------------------- the handler slots in app_data -------------------- *)

\* app_data is keyed by the type of the stored value: one slot per wrapper type
Slots ==
    {"error::ValidationErrorHandler", "validator::ValidatorErrorHandler",
     "garde::GardeErrorHandler", "custom::ValidationErrorHandler"}

SlotOf(kind) ==
    CASE kind = "legacy" -> "error::ValidationErrorHandler"
      [] kind = "validator" -> "validator::ValidatorErrorHandler"
      [] kind = "garde" -> "garde::GardeErrorHandler"
      [] OTHER -> "custom::ValidationErrorHandler"

\* mutant: a slot that holds a handler keeps it
insert_keep_first(extensions, slot, handler) ==
    IF extensions[slot] = None THEN [extensions EXCEPT ![slot] = handler]
    ELSE extensions

\* App::app_data(value): Extensions::insert, replacing a value of the same type
insert(extensions, slot, handler) == [extensions EXCEPT ![slot] = handler]

\* HttpRequest::app_data::<T>().map(|h| h.handler.clone())
app_data_get(extensions, slot) == extensions[slot]

\* error::ValidationErrorHandlerExt::validation_error_handler
error_validation_error_handler(extensions, handler) ==
    insert(extensions, "error::ValidationErrorHandler", handler)

\* validator::ValidatorErrorHandlerExt::validator_error_handler
validator_error_handler(extensions, handler) ==
    insert(extensions, "validator::ValidatorErrorHandler", handler)

\* garde::GardeErrorHandlerExt::garde_error_handler
garde_error_handler(extensions, handler) ==
    insert(extensions, "garde::GardeErrorHandler", handler)

\* custom::ValidationErrorHandlerExt::validation_error_handler (App and
\* &mut ServiceConfig have the same body)
custom_validation_error_handler(extensions, handler) ==
    insert(extensions, "custom::ValidationErrorHandler", handler)

(* ------------------------------ state ---------------------------------- *)

VARIABLES
    phase,       \* "building": the App is being configured; "serving": it serves
    app_data,    \* the App's extensions: slot -> handler or None
    firstReg,    \* history: slot -> handler of the first registration call
    lastReg,     \* history: slot -> handler of the latest registration call
    pipeline,    \* request -> its ValidatedFut (NoPipeline: none alive)
    life,        \* request -> "new" | "pending" | "ready" | "dropped"
    lastInner,   \* request -> what the inner future returned in the latest poll
    output,      \* request -> what the pipeline returned in the latest poll
    suspended,   \* history: request -> the pipeline has returned Pending
    validated,   \* history: request -> the values validate was called on
    handled,     \* history: request -> the handler calls made
    built,       \* history: request -> payloads a default error was built from
    lookedUp,    \* history: request -> what its kind's slot held at from_request
    errorTree,   \* a ValidationErrors value held by a caller of flatten_errors
    flattened,   \* history: what each flatten_errors(&errorTree) returned
    wrapper,     \* a Validated<T> value held by a caller (<<>>: none, or moved out)
    expect,      \* history: the value the caller put in the wrapper, as mutated
    seen,        \* history: what the latest read through the wrapper returned
    owned,       \* the value into_inner handed back (<<>>: none)
    printed      \* history: what the latest Debug formatting wrote

vars ==
    <<phase, app_data, firstReg, lastReg, pipeline, life, lastInner, output,
      suspended, validated, handled, built, lookedUp, errorTree, flattened,
      wrapper, expect, seen, owned, printed>>

\* the variables of the pipelines and of the registry
appVars ==
    <<phase, app_data, firstReg, lastReg, pipeline, life, lastInner, output,
      suspended, validated, handled, built, lookedUp>>

\* the variables of a caller of the flattener
flatVars == <<errorTree, flattened>>

\* the variables of a holder of a Validated<T> value
wrapVars == <<wrapper, expect, seen, owned, printed>>

(* ------------------------- ValidatedFut ------------------------------- *)

\* struct ValidatedFut { req, fut, error_handler }; kind is the module whose
\* ValidatedFut this is
ValidatedFut(kind, req, fut, error_handler) ==
    [kind |-> kind, req |-> req, fut |-> fut, error_handler |-> error_handler]

NoPipeline == ValidatedFut(None, 0, None, None)

\* <lib::Validated<T> as FromRequest>::from_request
lib_from_request(extensions, req) ==
    ValidatedFut("legacy", req, "InFlight",
                 app_data_get(extensions, "error::ValidationErrorHandler"))

\* mutant: the handler is not looked up
validator_from_request_no_lookup(extensions, req) ==
    ValidatedFut("validator", req, "InFlight", None)

\* <validator::Validated<T> as FromRequest>::from_request
validator_from_request(extensions, req) ==
    ValidatedFut("validator", req, "InFlight",
                 app_data_get(extensions, "validator::ValidatorErrorHandler"))

\* <garde::Validated<T> as FromRequest>::from_request
garde_from_request(extensions, req) ==
    ValidatedFut("garde", req, "InFlight",
                 app_data_get(extensions, "garde::GardeErrorHandler"))

\* mutant: the lookup names the root crate's ValidationErrorHandler
custom_from_request_root_slot(extensions, req) ==
    ValidatedFut("custom", req, "InFlight",
                 app_data_get(extensions, "error::ValidationErrorHandler"))

\* <custom::Validated<T> as FromRequest>::from_request
custom_from_request(extensions, req) ==
    ValidatedFut("custom", req, "InFlight",
                 app_data_get(extensions, "custom::ValidationErrorHandler"))

\* what a poll returned and what it called on the way: the values validate was
\* called on, the handler calls made, the default errors built
Step(ret, validations, calls, defaults) ==
    [ret |-> ret, validated |-> validations, handled |-> calls, built |-> defaults]

HandlerCall(h, e, req) == [handler |-> h, payload |-> e, req |-> req]

\* mutant: a failed validation is left for a later poll
lib_poll_defers(this, inner) ==
    IF inner.state # "Ready" THEN Step(Pending, <<>>, <<>>, <<>>)
    ELSE IF inner.res.ok
    THEN LET data == inner.res.value
             v == validate_validator(Deref(data))
         IN IF ~v.ok
            THEN Step(Pending, <<Deref(data)>>, <<>>, <<>>)
            ELSE Step(Ready(ResOk(Validated(data))), <<Deref(data)>>, <<>>, <<>>)
    ELSE Step(Ready(ResErr(inner_into(inner.res.err))), <<>>, <<>>, <<>>)

\* mutant: the handler is looked up in app_data when validation fails, not
\* taken from the pipeline
lib_poll_late_lookup(this, inner) ==
    IF inner.state # "Ready" THEN Step(Pending, <<>>, <<>>, <<>>)
    ELSE IF inner.res.ok
    THEN LET data == inner.res.value
             v == validate_validator(Deref(data))
             late == app_data_get(app_data, "error::ValidationErrorHandler")
         IN IF ~v.ok
            THEN IF late # None
                 THEN Step(Ready(ResErr(call_handler(late, v.e, this.req))),
                           <<Deref(data)>>, <<HandlerCall(late, v.e, this.req)>>, <<>>)
                 ELSE Step(Ready(ResErr(error_Error_into(v.e))),
                           <<Deref(data)>>, <<>>, <<v.e>>)
            ELSE Step(Ready(ResOk(Validated(data))), <<Deref(data)>>, <<>>, <<>>)
    ELSE Step(Ready(ResErr(inner_into(inner.res.err))), <<>>, <<>>, <<>>)

\* <lib::ValidatedFut<T> as Future>::poll, given the inner future's poll result
lib_poll(this, inner) ==
    IF inner.state # "Ready" THEN Step(Pending, <<>>, <<>>, <<>>)
    ELSE IF inner.res.ok
    THEN LET data == inner.res.value
             v == validate_validator(Deref(data))
         IN IF ~v.ok
            THEN IF this.error_handler # None
                 THEN Step(Ready(ResErr(call_handler(this.error_handler, v.e, this.req))),
                           <<Deref(data)>>,
                           <<HandlerCall(this.error_handler, v.e, this.req)>>, <<>>)
                 ELSE Step(Ready(ResErr(error_Error_into(v.e))),
                           <<Deref(data)>>, <<>>, <<v.e>>)
            ELSE Step(Ready(ResOk(Validated(data))), <<Deref(data)>>, <<>>, <<>>)
    ELSE Step(Ready(ResErr(inner_into(inner.res.err))), <<>>, <<>>, <<>>)

\* mutant: the handler is the one held by the pipeline of the first request
validator_poll_shared_handler(this, inner) ==
    IF inner.state # "Ready" THEN Step(Pending, <<>>, <<>>, <<>>)
    ELSE IF inner.res.ok
    THEN LET data == inner.res.value
             v == validate_validator(Deref(data))
             shared == pipeline[1].error_handler
         IN IF ~v.ok
            THEN IF shared # None
                 THEN Step(Ready(ResErr(call_handler(shared, v.e, this.req))),
                           <<Deref(data)>>, <<HandlerCall(shared, v.e, this.req)>>, <<>>)
                 ELSE Step(Ready(ResErr(validator_Error_into(v.e))),
                           <<Deref(data)>>, <<>>, <<v.e>>)
            ELSE Step(Ready(ResOk(Validated(data))), <<Deref(data)>>, <<>>, <<>>)
    ELSE Step(Ready(ResErr(inner_into(inner.res.err))), <<>>, <<>>, <<>>)

\* mutant: without a handler a failed validation is let through
validator_poll_silent_recovery(this, inner) ==
    IF inner.state # "Ready" THEN Step(Pending, <<>>, <<>>, <<>>)
    ELSE IF inner.res.ok
    THEN LET data == inner.res.value
             v == validate_validator(Deref(data))
         IN IF ~v.ok /\ this.error_handler # None
            THEN Step(Ready(ResErr(call_handler(this.error_handler, v.e, this.req))),
                      <<Deref(data)>>,
                      <<HandlerCall(this.error_handler, v.e, this.req)>>, <<>>)
            ELSE Step(Ready(ResOk(Validated(data))), <<Deref(data)>>, <<>>, <<>>)
    ELSE Step(Ready(ResErr(inner_into(inner.res.err))), <<>>, <<>>, <<>>)

\* mutant: an extraction error is routed to the registered handler
validator_poll_handles_extraction(this, inner) ==
    IF inner.state # "Ready" THEN Step(Pending, <<>>, <<>>, <<>>)
    ELSE IF inner.res.ok
    THEN LET data == inner.res.value
             v == validate_validator(Deref(data))
         IN IF ~v.ok
            THEN IF this.error_handler # None
                 THEN Step(Ready(ResErr(call_handler(this.error_handler, v.e, this.req))),
                           <<Deref(data)>>,
                           <<HandlerCall(this.error_handler, v.e, this.req)>>, <<>>)
                 ELSE Step(Ready(ResErr(validator_Error_into(v.e))),
                           <<Deref(data)>>, <<>>, <<v.e>>)
            ELSE Step(Ready(ResOk(Validated(data))), <<Deref(data)>>, <<>>, <<>>)
    ELSE IF this.error_handler # None
         THEN Step(Ready(ResErr(call_handler(this.error_handler, <<>>, this.req))),
                   <<>>, <<HandlerCall(this.error_handler, <<>>, this.req)>>, <<>>)
         ELSE Step(Ready(ResErr(inner_into(inner.res.err))), <<>>, <<>>, <<>>)

\* <validator::ValidatedFut<T> as Future>::poll
validator_poll(this, inner) ==
    IF inner.state # "Ready" THEN Step(Pending, <<>>, <<>>, <<>>)
    ELSE IF inner.res.ok
    THEN LET data == inner.res.value
             v == validate_validator(Deref(data))
         IN IF ~v.ok
            THEN IF this.error_handler # None
                 THEN Step(Ready(ResErr(call_handler(this.error_handler, v.e, this.req))),
                           <<Deref(data)>>,
                           <<HandlerCall(this.error_handler, v.e, this.req)>>, <<>>)
                 ELSE Step(Ready(ResErr(validator_Error_into(v.e))),
                           <<Deref(data)>>, <<>>, <<v.e>>)
            ELSE Step(Ready(ResOk(Validated(data))), <<Deref(data)>>, <<>>, <<>>)
    ELSE Step(Ready(ResErr(inner_into(inner.res.err))), <<>>, <<>>, <<>>)

\* mutant: the captured handler is ignored
garde_poll_default_only(this, inner) ==
    IF inner.state # "Ready" THEN Step(Pending, <<>>, <<>>, <<>>)
    ELSE IF inner.res.ok
    THEN LET data == inner.res.value
             v == validate_garde(Deref(data))
         IN IF ~v.ok
            THEN Step(Ready(ResErr(garde_Error_into(v.e))),
                      <<Deref(data)>>, <<>>, <<v.e>>)
            ELSE Step(Ready(ResOk(Validated(data))), <<Deref(data)>>, <<>>, <<>>)
    ELSE Step(Ready(ResErr(inner_into(inner.res.err))), <<>>, <<>>, <<>>)

\* mutant: a failed validation is retried once before the branch is taken
garde_poll_retries(this, inner) ==
    IF inner.state # "Ready" THEN Step(Pending, <<>>, <<>>, <<>>)
    ELSE IF inner.res.ok
    THEN LET data == inner.res.value
             v == validate_garde(Deref(data))
         IN IF ~v.ok
            THEN IF this.error_handler # None
                 THEN Step(Ready(ResErr(call_handler(this.error_handler, v.e, this.req))),
                           <<Deref(data), Deref(data)>>,
                           <<HandlerCall(this.error_handler, v.e, this.req)>>, <<>>)
                 ELSE Step(Ready(ResErr(garde_Error_into(v.e))),
                           <<Deref(data), Deref(data)>>, <<>>, <<v.e>>)
            ELSE Step(Ready(ResOk(Validated(data))), <<Deref(data)>>, <<>>, <<>>)
    ELSE Step(Ready(ResErr(inner_into(inner.res.err))), <<>>, <<>>, <<>>)

\* <garde::ValidatedFut<T> as Future>::poll
garde_poll(this, inner) ==
    IF inner.state # "Ready" THEN Step(Pending, <<>>, <<>>, <<>>)
    ELSE IF inner.res.ok
    THEN LET data == inner.res.value
             v == validate_garde(Deref(data))
         IN IF ~v.ok
            THEN IF this.error_handler # None
                 THEN Step(Ready(ResErr(call_handler(this.error_handler, v.e, this.req))),
                           <<Deref(data)>>,
                           <<HandlerCall(this.error_handler, v.e, this.req)>>, <<>>)
                 ELSE Step(Ready(ResErr(garde_Error_into(v.e))),
                           <<Deref(data)>>, <<>>, <<v.e>>)
            ELSE Step(Ready(ResOk(Validated(data))), <<Deref(data)>>, <<>>, <<>>)
    ELSE Step(Ready(ResErr(inner_into(inner.res.err))), <<>>, <<>>, <<>>)

\* mutant: an Err with no error in it counts as a passed validation
custom_poll_empty_is_ok(this, inner) ==
    IF inner.state # "Ready" THEN Step(Pending, <<>>, <<>>, <<>>)
    ELSE IF inner.res.ok
    THEN LET data == inner.res.value
             v == validate_custom(Deref(data))
         IN IF ~v.ok /\ v.e # <<>>
            THEN IF this.error_handler # None
                 THEN Step(Ready(ResErr(call_handler(this.error_handler, v.e, this.req))),
                           <<Deref(data)>>,
                           <<HandlerCall(this.error_handler, v.e, this.req)>>, <<>>)
                 ELSE Step(Ready(ResErr(custom_Error_into(v.e))),
                           <<Deref(data)>>, <<>>, <<v.e>>)
            ELSE Step(Ready(ResOk(Validated(data))), <<Deref(data)>>, <<>>, <<>>)
    ELSE Step(Ready(ResErr(inner_into(inner.res.err))), <<>>, <<>>, <<>>)

\* mutant: an extraction error is swallowed and the pipeline stays pending
custom_poll_swallows_error(this, inner) ==
    IF inner.state # "Ready" THEN Step(Pending, <<>>, <<>>, <<>>)
    ELSE IF inner.res.ok
    THEN LET data == inner.res.value
             v == validate_custom(Deref(data))
         IN IF ~v.ok
            THEN IF this.error_handler # None
                 THEN Step(Ready(ResErr(call_handler(this.error_handler, v.e, this.req))),
                           <<Deref(data)>>,
                           <<HandlerCall(this.error_handler, v.e, this.req)>>, <<>>)
                 ELSE Step(Ready(ResErr(custom_Error_into(v.e))),
                           <<Deref(data)>>, <<>>, <<v.e>>)
            ELSE Step(Ready(ResOk(Validated(data))), <<Deref(data)>>, <<>>, <<>>)
    ELSE Step(Pending, <<>>, <<>>, <<>>)

\* mutant: the branches on the validation result are swapped
custom_poll_inverted(this, inner) ==
    IF inner.state # "Ready" THEN Step(Pending, <<>>, <<>>, <<>>)
    ELSE IF inner.res.ok
    THEN LET data == inner.res.value
             v == validate_custom(Deref(data))
         IN IF v.ok
            THEN IF this.error_handler # None
                 THEN Step(Ready(ResErr(call_handler(this.error_handler, v.e, this.req))),
                           <<Deref(data)>>,
                           <<HandlerCall(this.error_handler, v.e, this.req)>>, <<>>)
                 ELSE Step(Ready(ResErr(custom_Error_into(v.e))),
                           <<Deref(data)>>, <<>>, <<v.e>>)
            ELSE Step(Ready(ResOk(Validated(data))), <<Deref(data)>>, <<>>, <<>>)
    ELSE Step(Ready(ResErr(inner_into(inner.res.err))), <<>>, <<>>, <<>>)

\* <custom::ValidatedFut<T> as Future>::poll
custom_poll(this, inner) ==
    IF inner.state # "Ready" THEN Step(Pending, <<>>, <<>>, <<>>)
    ELSE IF inner.res.ok
    THEN LET data == inner.res.value
             v == validate_custom(Deref(data))
         IN IF ~v.ok
            THEN IF this.error_handler # None
                 THEN Step(Ready(ResErr(call_handler(this.error_handler, v.e, this.req))),
                           <<Deref(data)>>,
                           <<HandlerCall(this.error_handler, v.e, this.req)>>, <<>>)
                 ELSE Step(Ready(ResErr(custom_Error_into(v.e))),
                           <<Deref(data)>>, <<>>, <<v.e>>)
            ELSE Step(Ready(ResOk(Validated(data))), <<Deref(data)>>, <<>>, <<>>)
    ELSE Step(Ready(ResErr(inner_into(inner.res.err))), <<>>, <<>>, <<>>)

\* the rule engine a backend calls
validate(kind, target) ==
    CASE kind = "garde" -> validate_garde(target)
      [] kind = "custom" -> validate_custom(target)
      [] OTHER -> validate_validator(target)

\* the registration call of a backend
register(kind, extensions, handler) ==
    CASE kind = "legacy" -> error_validation_error_handler(extensions, handler)
      [] kind = "validator" -> validator_error_handler(extensions, handler)
      [] kind = "garde" -> garde_error_handler(extensions, handler)
      [] OTHER -> custom_validation_error_handler(extensions, handler)

\* the extractor of a backend
from_request(kind, extensions, req) ==
    CASE kind = "legacy" -> lib_from_request(extensions, req)
      [] kind = "validator" -> validator_from_request(extensions, req)
      [] kind = "garde" -> garde_from_request(extensions, req)
      [] OTHER -> custom_from_request(extensions, req)

\* the future of a backend
poll(this, inner) ==
    CASE this.kind = "legacy" -> lib_poll(this, inner)
      [] this.kind = "validator" -> validator_poll(this, inner)
      [] this.kind = "garde" -> garde_poll(this, inner)
      [] OTHER -> custom_poll(this, inner)

\* the default rendering of a backend
error_response(kind, e) ==
    CASE kind = "legacy" -> error_error_response(e)
      [] kind = "validator" -> validator_error_response(e)
      [] kind = "garde" -> garde_error_response(e)
      [] OTHER -> custom_error_response(e)

\* mutant: the captured handler and request handle outlive the drop
drop_leaks(this) == [this EXCEPT !.fut = None]

\* dropping a ValidatedFut drops its three fields; nothing else refers to them
drop(this) == NoPipeline

(* ---------------------------- behaviours ------------------------------ *)

\* the application before anything is registered or served
InitApp ==
    /\ phase = "building"
    /\ app_data = [s \in Slots |-> None]
    /\ firstReg = [s \in Slots |-> None]
    /\ lastReg = [s \in Slots |-> None]
    /\ pipeline = [r \in Req |-> NoPipeline]
    /\ life = [r \in Req |-> "new"]
    /\ lastInner = [r \in Req |-> NotPolled]
    /\ output = [r \in Req |-> NotPolled]
    /\ suspended = [r \in Req |-> FALSE]
    /\ validated = [r \in Req |-> <<>>]
    /\ handled = [r \in Req |-> <<>>]
    /\ built = [r \in Req |-> <<>>]
    /\ lookedUp = [r \in Req |-> None]

\* no caller holds a tree
InitNoTree ==
    /\ errorTree = <<>>
    /\ flattened = <<>>

\* no caller holds a wrapper
InitNoWrapper ==
    /\ wrapper = <<>>
    /\ expect = <<>>
    /\ seen = <<>>
    /\ owned = <<>>
    /\ printed = <<>>

Init == InitApp /\ InitNoTree /\ InitNoWrapper

\* App::new()....<kind>_error_handler(Arc::new(h)) while the App is built
Register(kind, h) ==
    /\ phase = "building"
    /\ app_data' = register(kind, app_data, h)
    /\ firstReg' = [firstReg EXCEPT ![SlotOf(kind)] = IF @ = None THEN h ELSE @]
    /\ lastReg' = [lastReg EXCEPT ![SlotOf(kind)] = h]
    /\ UNCHANGED <<flatVars, wrapVars>>
    /\ UNCHANGED <<phase, pipeline, life, lastInner, output, suspended, validated,
                   handled, built, lookedUp>>

\* HttpServer::new(factory).run() / test::init_service(app): the App is
\* consumed and its app_data is frozen
Serve ==
    /\ phase = "building"
    /\ phase' = "serving"
    /\ UNCHANGED <<flatVars, wrapVars>>
    /\ UNCHANGED <<app_data, firstReg, lastReg, pipeline, life, lastInner, output,
                   suspended, validated, handled, built, lookedUp>>

\* the framework extracts a Validated<T> argument of kind `kind` for request r
FromRequest(r, kind) ==
    /\ phase = "serving"
    /\ life[r] = "new"
    /\ pipeline' = [pipeline EXCEPT ![r] = from_request(kind, app_data, r)]
    /\ life' = [life EXCEPT ![r] = "pending"]
    /\ lookedUp' = [lookedUp EXCEPT ![r] = app_data[SlotOf(kind)]]
    /\ UNCHANGED <<flatVars, wrapVars>>
    /\ UNCHANGED <<phase, app_data, firstReg, lastReg, lastInner, output,
                   suspended, validated, handled, built>>

\* the executor polls the pipeline of request r; the inner future, polled
\* only until it resolves, returns `inner`
Poll(r, inner) ==
    /\ life[r] = "pending"
    /\ pipeline[r].fut = "InFlight"
    /\ LET step == poll(pipeline[r], inner)
       IN /\ lastInner' = [lastInner EXCEPT ![r] = inner]
          /\ output' = [output EXCEPT ![r] = step.ret]
          /\ suspended' = [suspended EXCEPT ![r] = @ \/ step.ret.state = "Pending"]
          /\ validated' = [validated EXCEPT ![r] = @ \o step.validated]
          /\ handled' = [handled EXCEPT ![r] = @ \o step.handled]
          /\ built' = [built EXCEPT ![r] = @ \o step.built]
          /\ life' = [life EXCEPT ![r] =
                        IF step.ret.state = "Ready" THEN "ready" ELSE "pending"]
          /\ pipeline' = [pipeline EXCEPT ![r] =
                        IF inner.state = "Ready"
                        THEN [@ EXCEPT !.fut = "Completed"] ELSE @]
    /\ UNCHANGED <<flatVars, wrapVars>>
    /\ UNCHANGED <<phase, app_data, firstReg, lastReg, lookedUp>>

\* the request is cancelled: its pipeline is dropped before it returned Ready
Drop(r) ==
    /\ life[r] = "pending"
    /\ pipeline' = [pipeline EXCEPT ![r] = drop(@)]
    /\ life' = [life EXCEPT ![r] = "dropped"]
    /\ UNCHANGED <<flatVars, wrapVars>>
    /\ UNCHANGED <<phase, app_data, firstReg, lastReg, lastInner, output,
                   suspended, validated, handled, built, lookedUp>>

\* An application that registers one handler function, for any of the kinds,
\* and then serves MaxReq requests whose extraction can end in every way.
Next ==
    \/ \E kind \in Kinds : Register(kind, "h1")
    \/ Serve
    \/ \E r \in OneReq, kind \in Kinds : FromRequest(r, kind)
    \/ \E r \in OneReq, inner \in InnerPolls : Poll(r, inner)
    \/ \E r \in OneReq : Drop(r)

Spec == Init /\ [][Next]_vars

\* inner poll result of the requests of SpecReg: a decoded value that fails
\* validation
InnerPollsReg == {Ready(ResOk(Json("1234")))}

\* An application built by any sequence of registrations of the handlers, for
\* any kinds, that then serves MaxRegReq requests.
NextReg ==
    \/ \E kind \in Kinds, h \in Handlers : Register(kind, h)
    \/ Serve
    \/ \E r \in RegReq, kind \in Kinds : FromRequest(r, kind)
    \/ \E r \in RegReq, inner \in InnerPollsReg : Poll(r, inner)

SpecReg == Init /\ [][NextReg]_vars

\* inner poll results of the requests of SpecServe: still pending, or a decoded
\* value that fails validation, or one that passes
InnerPollsServe ==
    {Pending, Ready(ResOk(Json("1234"))), Ready(ResOk(Json("123456")))}

\* An application that registers one handler function, for any of the kinds,
\* and then serves MaxServeReq requests concurrently.
NextServe ==
    \/ \E kind \in Kinds : Register(kind, "h1")
    \/ Serve
    \/ \E r \in ServeReq, kind \in Kinds : FromRequest(r, kind)
    \/ \E r \in ServeReq, inner \in InnerPollsServe : Poll(r, inner)

SpecServe == Init /\ [][NextServe]_vars

\* the slot of `kind` is given another handler, or emptied (h = None), while
\* a pipeline of that kind is pending: the change the claim about in-flight
\* requests supposes
Reregister(kind, h) ==
    /\ phase = "serving"
    /\ \E r \in Req : life[r] = "pending" /\ pipeline[r].kind = kind
    /\ app_data[SlotOf(kind)] # h
    /\ app_data' = [app_data EXCEPT ![SlotOf(kind)] = h]
    /\ lastReg' = [lastReg EXCEPT ![SlotOf(kind)] = h]
    /\ UNCHANGED <<flatVars, wrapVars>>
    /\ UNCHANGED <<phase, firstReg, pipeline, life, lastInner, output, suspended,
                   validated, handled, built, lookedUp>>

\* An application that registers one handler function, for any of the kinds,
\* serves MaxLateReq requests, and has its slots changed while it serves.
NextLate ==
    \/ \E kind \in Kinds : Register(kind, "h1")
    \/ Serve
    \/ \E r \in LateReq, kind \in Kinds : FromRequest(r, kind)
    \/ \E r \in LateReq, inner \in InnerPollsServe : Poll(r, inner)
    \/ \E kind \in Kinds, h \in {"h2", None} : Reregister(kind, h)

SpecLate == Init /\ [][NextLate]_vars

\* the polls in which the inner extraction of a request of SpecLive resolves:
\* to a valid value, to an invalid one, or to an error
ReadyPollsLive ==
    {Ready(ResOk(Json("123456"))), Ready(ResOk(Json("1234")))}
    \cup {Ready(ResErr(e)) : e \in InnerErrors}

\* An application that registers one handler function, for any of the kinds,
\* and serves MaxLiveReq requests that are never dropped.
NextLive ==
    \/ \E kind \in Kinds : Register(kind, "h1")
    \/ Serve
    \/ \E r \in LiveReq, kind \in Kinds : FromRequest(r, kind)
    \/ \E r \in LiveReq : Poll(r, Pending)
    \/ \E r \in LiveReq, inner \in ReadyPollsLive : Poll(r, inner)

\* the inner extraction of every request eventually resolves while its
\* pipeline is being polled
InnerResolves ==
    \A r \in LiveReq : WF_vars(\E inner \in ReadyPollsLive : Poll(r, inner))

SpecLive == Init /\ [][NextLive]_vars /\ InnerResolves

\* one request is extracted by each of the four copies at once: request r is a
\* Validated<T> argument of kind SideKinds[r]
FromRequestAll ==
    /\ phase = "serving"
    /\ \A r \in SideReq : life[r] = "new"
    /\ pipeline' = [r \in Req |->
                        IF r \in SideReq THEN from_request(SideKinds[r], app_data, r)
                        ELSE pipeline[r]]
    /\ life' = [r \in Req |-> IF r \in SideReq THEN "pending" ELSE life[r]]
    /\ lookedUp' = [r \in Req |->
                        IF r \in SideReq THEN app_data[SlotOf(SideKinds[r])]
                        ELSE lookedUp[r]]
    /\ UNCHANGED <<flatVars, wrapVars>>
    /\ UNCHANGED <<phase, app_data, firstReg, lastReg, lastInner, output,
                   suspended, validated, handled, built>>

\* the pipelines that can still be polled
Pollable == {r \in SideReq : life[r] = "pending" /\ pipeline[r].fut = "InFlight"}

\* the four pipelines are polled in the same round, and the inner future of
\* each returns the same `inner`
PollAll(inner) ==
    /\ Pollable # {}
    /\ LET step == [r \in Pollable |-> poll(pipeline[r], inner)]
       IN /\ lastInner' = [r \in Req |-> IF r \in Pollable THEN inner ELSE lastInner[r]]
          /\ output' = [r \in Req |-> IF r \in Pollable THEN step[r].ret ELSE output[r]]
          /\ suspended' = [r \in Req |->
                              IF r \in Pollable
                              THEN suspended[r] \/ step[r].ret.state = "Pending"
                              ELSE suspended[r]]
          /\ validated' = [r \in Req |->
                              IF r \in Pollable THEN validated[r] \o step[r].validated
                              ELSE validated[r]]
          /\ handled' = [r \in Req |->
                            IF r \in Pollable THEN handled[r] \o step[r].handled
                            ELSE handled[r]]
          /\ built' = [r \in Req |->
                          IF r \in Pollable THEN built[r] \o step[r].built
                          ELSE built[r]]
          /\ life' = [r \in Req |->
                         IF r \in Pollable /\ step[r].ret.state = "Ready" THEN "ready"
                         ELSE life[r]]
          /\ pipeline' = [r \in Req |->
                             IF r \in Pollable /\ inner.state = "Ready"
                             THEN [pipeline[r] EXCEPT !.fut = "Completed"]
                             ELSE pipeline[r]]
    /\ UNCHANGED <<flatVars, wrapVars>>
    /\ UNCHANGED <<phase, app_data, firstReg, lastReg, lookedUp>>

\* An application that registers one handler function, for any of the kinds,
\* and serves one request per copy of the extractor, the four side by side.
NextSide ==
    \/ \E kind \in Kinds : Register(kind, "h1")
    \/ Serve
    \/ FromRequestAll
    \/ \E inner \in InnerPolls : PollAll(inner)

SpecSide == Init /\ [][NextSide]_vars

\* let v = Validated(ExamplePayload { name }): the tuple struct is built
\* directly by a caller
Construct(name) ==
    /\ wrapper = <<>>
    /\ wrapper' = Validated(ExamplePayload(name))
    /\ expect' = <<ExamplePayload(name)>>
    /\ UNCHANGED <<seen, owned, printed, appVars, flatVars>>

\* a read through the wrapper: &*v
ReadThrough ==
    /\ wrapper # <<>>
    /\ seen' = <<[got |-> Validated_deref(wrapper), want |-> expect[1]]>>
    /\ UNCHANGED <<wrapper, expect, owned, printed, appVars, flatVars>>

\* a write through the wrapper: v.name = name
Mutate(name) ==
    /\ wrapper # <<>>
    /\ wrapper' = Validated_deref_mut_write(
                      wrapper, [Validated_deref(wrapper) EXCEPT !.name = name])
    /\ expect' = <<[expect[1] EXCEPT !.name = name]>>
    /\ UNCHANGED <<seen, owned, printed, appVars, flatVars>>

\* v.into_inner(): the wrapper is consumed
IntoInner ==
    /\ wrapper # <<>>
    /\ owned' = <<Validated_into_inner(wrapper)>>
    /\ wrapper' = <<>>
    /\ UNCHANGED <<expect, seen, printed, appVars, flatVars>>

\* format!("{v:?}") or format!("{v:#?}")
Fmt(alternate) ==
    /\ wrapper # <<>>
    /\ printed' = <<[alternate |-> alternate, of |-> expect[1],
                     text |-> Validated_fmt(wrapper, alternate)]>>
    /\ UNCHANGED <<wrapper, expect, seen, owned, appVars, flatVars>>

NextWrap ==
    \/ \E name \in Values : Construct(name)
    \/ ReadThrough
    \/ \E name \in Values : Mutate(name)
    \/ IntoInner
    \/ \E alternate \in BOOLEAN : Fmt(alternate)

\* A caller that builds Validated values itself, reads, writes and prints
\* through them and takes the wrapped value back.
SpecWrap == Init /\ [][NextWrap]_vars

\* a caller holds a ValidationErrors value, in any of its iteration orders
InitFlat ==
    /\ InitApp
    /\ InitNoWrapper
    /\ errorTree \in Trees
    /\ flattened = <<>>

\* flatten_errors(&errorTree) of the copy `kind` is called and its result kept
Flatten(kind) ==
    /\ Len(flattened) < MaxCalls
    /\ flattened' = Append(flattened, [kind |-> kind, out |-> flatten_errors(kind, errorTree)])
    /\ errorTree' = ref_ValidationErrors(errorTree)
    /\ UNCHANGED <<appVars, wrapVars>>

NextFlat == \E kind \in {"legacy", "validator"} : Flatten(kind)

\* Every ValidationErrors tree of the bounded shape, flattened MaxCalls times.
SpecFlat == InitFlat /\ [][NextFlat]_vars

(* ======================= claims about the pipeline ===================== *)

\* the request's latest poll saw the inner extraction resolve to Ok(data)
InnerOk(r) == lastInner[r].state = "Ready" /\ lastInner[r].res.ok

\* the request's latest poll saw the inner extraction resolve to Err(e)
InnerErr(r) == lastInner[r].state = "Ready" /\ ~lastInner[r].res.ok

\* the value the inner extraction of request r resolved to
DataOf(r) == lastInner[r].res.value

\* what the backend's rule engine answers for the value request r decoded
ValidationOf(r) == validate(pipeline[r].kind, Deref(DataOf(r)))

\* a handler is registered for the extractor kind of request r
Registered(r) == app_data[SlotOf(pipeline[r].kind)] # None

\* C1: when the inner extraction resolves to a value v that validates, the
\* pipeline resolves to Ok(Validated(v)) whose inner value equals v, no default
\* error is built and no handler is invoked, registered or not.
C1_ValidYieldsValidated ==
    \A r \in Req :
        (InnerOk(r) /\ ValidationOf(r).ok) =>
            /\ life[r] = "ready"
            /\ output[r].state = "Ready"
            /\ output[r].res.ok
            /\ output[r].res.value = <<DataOf(r)>>
            /\ output[r].res.value[1] = DataOf(r)
            /\ output[r].res.err = NoError
            /\ built[r] = <<>>
            /\ handled[r] = <<>>

\* C1 witness: a valid value came through a pipeline that had a handler captured
C1_Witness ==
    \E r \in Req :
        /\ InnerOk(r) /\ ValidationOf(r).ok
        /\ pipeline[r].error_handler # None
        /\ output[r].res.ok

\* C2: when validation fails while a handler is registered for the kind, the
\* result is exactly the handler's error (status and body verbatim), no default
\* error is built, and the handler was called once with the payload validate
\* returned, unflattened, and the request handle of that request.
C2_HandlerOverride ==
    \A r \in Req :
        (InnerOk(r) /\ ~ValidationOf(r).ok /\ Registered(r)) =>
            LET h == app_data[SlotOf(pipeline[r].kind)]
                e == ValidationOf(r).e
            IN /\ output[r].state = "Ready"
               /\ ~output[r].res.ok
               /\ output[r].res.err.origin = "handler"
               /\ output[r].res.err.by = h
               /\ output[r].res.err.payload = e
               /\ output[r].res.err.req = r
               /\ output[r].res.err.response.status = handler_status(h)
               /\ output[r].res.err.response # error_response(pipeline[r].kind, e)
               /\ handled[r] = <<[handler |-> h, payload |-> e, req |-> r]>>
               /\ built[r] = <<>>

\* C2 witness: a nested failure payload was handed to a registered handler
C2_Witness ==
    \E r \in Req :
        /\ InnerOk(r) /\ ~ValidationOf(r).ok /\ Registered(r)
        /\ Len(ValidationOf(r).e) > 1
        /\ Len(handled[r]) = 1
        /\ output[r].res.err.response.status = 422

\* C3: when the inner extraction resolves to an error, the same poll returns
\* Ready(Err) carrying that error converted to the pipeline's error type, and
\* neither validate nor a handler nor the default error is reached.
C3_ExtractionErrorPassesThrough ==
    \A r \in Req :
        InnerErr(r) =>
            /\ life[r] = "ready"
            /\ output[r].state = "Ready"
            /\ ~output[r].res.ok
            /\ output[r].res.err.origin = "extraction"
            /\ output[r].res.err.by = lastInner[r].res.err.by
            /\ output[r].res.err.response = lastInner[r].res.err.response
            /\ validated[r] = <<>>
            /\ handled[r] = <<>>
            /\ built[r] = <<>>

\* C3 witness: an extraction error in a pipeline that had a handler captured
C3_Witness ==
    \E r \in Req :
        /\ InnerErr(r)
        /\ pipeline[r].error_handler # None
        /\ output[r].res.err.origin = "extraction"

\* C4: for every backend, a validation failure with no handler registered gives
\* status 400 and a body that starts with "Validation errors in fields:" and a
\* newline.
C4_DefaultStatusAndHeader ==
    \A r \in Req :
        (InnerOk(r) /\ ~ValidationOf(r).ok /\ ~Registered(r)) =>
            LET resp == output[r].res.err.response
            IN /\ output[r].state = "Ready"
               /\ ~output[r].res.ok
               /\ output[r].res.err.origin = "default"
               /\ resp.status = 400
               /\ Len(resp.body) >= 2
               /\ resp.body[1] = "Validation errors in fields:"
               /\ resp.body[2] = "\n"

\* C4 witness: the legacy pipeline answered a nested failure with the default
\* error while another kind had a handler registered
C4_Witness ==
    \E r \in Req :
        /\ pipeline[r].kind = "legacy"
        /\ InnerOk(r) /\ ~ValidationOf(r).ok /\ ~Registered(r)
        /\ Len(ValidationOf(r).e) > 1
        /\ output[r].res.err.origin = "default"
        /\ app_data # [s \in Slots |-> None]

\* C5: a pipeline dropped while its inner extraction was pending never had
\* validate or a handler invoked, never returned Ready, and leaves nothing.
C5_CancellationIsClean ==
    \A r \in Req :
        life[r] = "dropped" =>
            /\ validated[r] = <<>>
            /\ handled[r] = <<>>
            /\ built[r] = <<>>
            /\ output[r].state # "Ready"
            /\ lastInner[r].state # "Ready"
            /\ pipeline[r] = NoPipeline

\* C5 witness: a pipeline with a captured handler was polled, suspended and
\* then dropped
C5_Witness ==
    \E r \in Req :
        /\ life[r] = "dropped"
        /\ output[r].state = "Pending"
        /\ suspended[r]
        /\ app_data # [s \in Slots |-> None]

\* C6: a poll returns Pending exactly when the inner poll returned Pending; in
\* the poll where the inner extraction resolves, validation and the
\* handler/default branch have run and the pipeline is Ready.
C6_SingleSuspensionPoint ==
    \A r \in Req :
        /\ output[r].state = "Pending" <=> lastInner[r].state = "Pending"
        /\ output[r].state = "Ready" <=> lastInner[r].state = "Ready"
        /\ output[r].state = "Ready" <=> life[r] = "ready"
        /\ InnerOk(r) => validated[r] = <<Deref(DataOf(r))>>
        /\ (InnerOk(r) /\ ~ValidationOf(r).ok) => Len(handled[r]) + Len(built[r]) = 1
        /\ output[r].state = "Pending" => (validated[r] = <<>> /\ suspended[r])

\* C6 witness: a pipeline that had suspended resolved through a handler in the
\* poll in which its inner extraction resolved
C6_Witness ==
    \E r \in Req :
        /\ suspended[r]
        /\ output[r].state = "Ready" /\ Len(handled[r]) = 1

(* ======================= claims about the registry ===================== *)

\* request r has a pipeline (it was created and not dropped)
Alive(r) == pipeline[r].kind # None

\* C7: after any sequence of registrations a lookup for a kind returns the
\* handler of the last registration for it; a failing request invokes that
\* handler alone, never an earlier one.
C7_LastWriteWins ==
    /\ \A s \in Slots : app_data_get(app_data, s) = lastReg[s]
    /\ \A r \in Req :
          Alive(r) =>
              LET last == lastReg[SlotOf(pipeline[r].kind)]
              IN /\ pipeline[r].error_handler = last
                 /\ Len(handled[r]) <= 1
                 /\ \A i \in 1..Len(handled[r]) : handled[r][i].handler = last
                 /\ (InnerOk(r) /\ last # None) =>
                        (Len(handled[r]) = 1 /\ output[r].res.err.by = last)

\* C7 witness: a slot was registered twice with different handlers and a request
\* of that kind then failed validation
C7_Witness ==
    \E r \in Req :
        /\ Alive(r) /\ InnerOk(r)
        /\ firstReg[SlotOf(pipeline[r].kind)] # lastReg[SlotOf(pipeline[r].kind)]
        /\ Len(handled[r]) = 1

\* the slots of the kinds a step made no registration call for keep their value
SlotsFrame == \A s \in Slots : lastReg'[s] = lastReg[s] => app_data'[s] = app_data[s]

\* a failing pipeline of kind K used the handler of K's slot, or the default
\* error when K's slot is empty, whatever the other slots hold
OwnSlotOnly ==
    \A r \in Req :
        (Alive(r) /\ InnerOk(r)) =>
            LET own == app_data[SlotOf(pipeline[r].kind)]
            IN IF own = None
               THEN /\ handled[r] = <<>>
                    /\ output[r].res.err.origin = "default"
                    /\ built[r] = <<ValidationOf(r).e>>
               ELSE /\ handled[r] = <<HandlerCall(own, ValidationOf(r).e, r)>>
                    /\ output[r].res.err.origin = "handler"
                    /\ built[r] = <<>>

C9_ApplicationScoped ==
    \A r1, r2 \in Req :
        (Alive(r1) /\ Alive(r2) /\ pipeline[r1].kind = pipeline[r2].kind) =>
            /\ phase = "serving"
            /\ pipeline[r1].error_handler = pipeline[r2].error_handler
            /\ pipeline[r1].error_handler = lastReg[SlotOf(pipeline[r1].kind)]
            /\ (lastReg[SlotOf(pipeline[r1].kind)] = None
                    => pipeline[r1].error_handler = None)

\* C9 witness: two requests of one kind, one already answered through the
\* handler when the other was created, hold the same handler
C9_Witness ==
    \E r1, r2 \in Req :
        /\ r1 # r2
        /\ pipeline[r1].kind = "validator" /\ pipeline[r2].kind = "validator"
        /\ life[r1] = "ready" /\ Len(handled[r1]) = 1
        /\ life[r2] = "pending"
        /\ pipeline[r1].error_handler = "h1" /\ pipeline[r2].error_handler = "h1"

(* ================== claims about the default rendering ================= *)

RECURSIVE LeafErrors(_)
\* the ValidationError values of a ValidationErrors tree, field by field
LeafErrors(tree) ==
    Concat([i \in 1..Len(tree) |->
        CASE tree[i].kind = "Field" -> tree[i].errors
          [] tree[i].kind = "List" ->
                LET entries == btree_iter(tree[i].list)
                IN Concat([j \in 1..Len(entries) |-> LeafErrors(entries[j].errors)])
          [] OTHER -> LeafErrors(tree[i].sub)])

\* the field-level errors of a failure payload, as the text each displays as
ErrorTexts(kind, e) ==
    CASE kind \in {"legacy", "validator"} ->
            [i \in 1..Len(LeafErrors(e)) |-> DisplayVError(LeafErrors(e)[i])]
      [] kind = "garde" -> [i \in 1..Len(e) |-> <<e[i].error.message>>]
      [] OTHER -> [i \in 1..Len(e) |-> e[i].message]

\* index of the first newline of a text, 0 when it has none
FirstNL(text) ==
    IF \E i \in 1..Len(text) : text[i] = NL
    THEN CHOOSE i \in 1..Len(text) : text[i] = NL /\ \A j \in 1..(i - 1) : text[j] # NL
    ELSE 0

RECURSIVE Lines(_)
\* the lines of a text: its pieces between newlines
Lines(text) ==
    IF FirstNL(text) = 0 THEN <<text>>
    ELSE <<SubSeq(text, 1, FirstNL(text) - 1)>>
         \o Lines(SubSeq(text, FirstNL(text) + 1, Len(text)))

\* the lines of a default body after its header line
ErrorLines(body) ==
    IF Len(body) <= 2 THEN <<>> ELSE Lines(SubSeq(body, 3, Len(body)))

\* `part` occurs in `line` as a run of consecutive tokens
Contains(line, part) ==
    \E i \in 1..(Len(line) - Len(part) + 1) : SubSeq(line, i, i + Len(part) - 1) = part

\* request r failed validation and was answered with the default error
DefaultAnswered(r) ==
    /\ InnerOk(r) /\ ~ValidationOf(r).ok /\ ~Registered(r)
    /\ output[r].state = "Ready"

\* the value request r decoded violates exactly one rule, on the top-level field
\* "name"
OneTopLevelViolation(r) == Deref(DataOf(r)) \in {"1234", "abcd"}

\* C10 as stated: one line per field-level error, and for one violation on one
\* top-level field exactly one line that references the field's path and the
\* error's message -- in every backend.
C10_AsStated ==
    \A r \in Req :
        DefaultAnswered(r) =>
            LET kind == pipeline[r].kind
                resp == output[r].res.err.response
                texts == ErrorTexts(kind, ValidationOf(r).e)
                lines == ErrorLines(resp.body)
            IN /\ resp.status = 400
               /\ Len(lines) = Len(texts)
               /\ \A i \in 1..Len(texts) : Contains(lines[i], texts[i])
               /\ OneTopLevelViolation(r) =>
                     /\ Len(lines) = 1
                     /\ Contains(lines[1], <<"name">>)
                     /\ Contains(lines[1], texts[1])

\* C10 amended: one line per field-level error, each carrying that error's
\* message, in payload order; for one violation on one top-level field exactly
\* one line, which references the field's path in the validator, legacy and
\* garde backends and is a tab and the message alone in the custom backend.
C10_DefaultBodyOneLinePerError ==
    \A r \in Req :
        DefaultAnswered(r) =>
            LET kind == pipeline[r].kind
                resp == output[r].res.err.response
                texts == ErrorTexts(kind, ValidationOf(r).e)
                lines == ErrorLines(resp.body)
            IN /\ resp.status = 400
               /\ Len(lines) = Len(texts)
               /\ \A i \in 1..Len(texts) : Contains(lines[i], texts[i])
               /\ OneTopLevelViolation(r) =>
                     /\ Len(lines) = 1
                     /\ Contains(lines[1], texts[1])
                     /\ kind # "custom" => Contains(lines[1], <<"name", ": ">>)
                     /\ kind = "custom" => lines[1] = <<"\t">> \o texts[1]

\* C10 witness: the custom backend answered a single violation whose message
\* does not name the field
C10_Witness ==
    \E r \in Req :
        /\ DefaultAnswered(r)
        /\ pipeline[r].kind = "custom"
        /\ Deref(DataOf(r)) = "abcd"
        /\ Len(ErrorLines(output[r].res.err.response.body)) = 1

\* C11 as stated: every line of the custom backend's default body is a tab, a
\* field path, ": " and the error's message.
C11_AsStated ==
    \A r \in Req :
        (DefaultAnswered(r) /\ pipeline[r].kind = "custom") =>
            LET e == ValidationOf(r).e
                lines == ErrorLines(output[r].res.err.response.body)
            IN /\ Len(lines) = Len(e)
               /\ \A i \in 1..Len(lines) :
                     /\ lines[i][1] = TAB
                     /\ \E n \in 3..Len(lines[i]) :
                           /\ lines[i][n] = ": "
                           /\ SubSeq(lines[i], n + 1, Len(lines[i])) = e[i].message

\* C11 amended: the custom backend's default body is the header, a newline and
\* one line per error of the list, in list order, joined by single newlines;
\* every line is a tab followed by the error's message and nothing else (the
\* renderer adds no field path and no ": ").
C11_CustomLineIsTabMessage ==
    \A r \in Req :
        (DefaultAnswered(r) /\ pipeline[r].kind = "custom") =>
            LET e == ValidationOf(r).e
                body == output[r].res.err.response.body
                lines == ErrorLines(body)
            IN /\ SubSeq(body, 1, 2) = <<"Validation errors in fields:", "\n">>
               /\ Len(lines) = Len(e)
               /\ \A i \in 1..Len(lines) : lines[i] = <<"\t">> \o e[i].message
               /\ Deref(DataOf(r)) = "1234" =>
                     body = <<"Validation errors in fields:", "\n", "\t",
                              "name", " not long enough">>

\* C11 witness: the custom backend rendered a list of two errors
C11_Witness ==
    \E r \in Req :
        /\ DefaultAnswered(r) /\ pipeline[r].kind = "custom"
        /\ Len(ValidationOf(r).e) = 2
        /\ Len(ErrorLines(output[r].res.err.response.body)) = 2

\* request r was answered with the default error of a backend whose payload is
\* a ValidationErrors tree
TreeAnswered(r) == DefaultAnswered(r) /\ pipeline[r].kind \in {"legacy", "validator"}

\* `line` is `lead`, then a non-empty path, then ": ", then `text`
HasLineForm(line, lead, text) ==
    \E n \in (Len(lead) + 2)..Len(line) :
        /\ SubSeq(line, 1, Len(lead)) = lead
        /\ line[n] = ": "
        /\ \A k \in (Len(lead) + 1)..(n - 1) : line[k] \notin {"\t", "\n", ": "}
        /\ SubSeq(line, n + 1, Len(line)) = text

\* C12 as stated: every line of the default body of the validator and legacy
\* backends is "<path>: <message>" with no leading tab.
C12_AsStated ==
    \A r \in Req :
        TreeAnswered(r) =>
            LET texts == ErrorTexts(pipeline[r].kind, ValidationOf(r).e)
                lines == ErrorLines(output[r].res.err.response.body)
            IN /\ Len(lines) = Len(texts)
               /\ \A i \in 1..Len(lines) :
                     /\ lines[i][1] # "\t"
                     /\ HasLineForm(lines[i], <<>>, texts[i])

\* C12 amended: every line of the default body of the validator and legacy
\* backends is a tab, the path, ": " and the error's display text -- the same
\* leading tab as the flat-list backend writes.
C12_TreeLineIsTabPathMessage ==
    \A r \in Req :
        TreeAnswered(r) =>
            LET texts == ErrorTexts(pipeline[r].kind, ValidationOf(r).e)
                body == output[r].res.err.response.body
                lines == ErrorLines(body)
            IN /\ Len(lines) = Len(texts)
               /\ \A i \in 1..Len(lines) : HasLineForm(lines[i], <<"\t">>, texts[i])
               /\ OneTopLevelViolation(r) =>
                     body = <<"Validation errors in fields:", "\n", "\t", "name", ": ">>
                            \o texts[1]

\* C12 witness: the validator backend rendered a nested tree of several errors
C12_Witness ==
    \E r \in Req :
        /\ TreeAnswered(r) /\ pipeline[r].kind = "validator"
        /\ Deref(DataOf(r)) = "order"
        /\ Len(ErrorLines(output[r].res.err.response.body)) = 5

\* the number of newlines of a text
CountNL(text) == Cardinality({i \in 1..Len(text) : text[i] = "\n"})

\* C13: the garde backend's default body is the header, a newline and one
\* "<path>: <message>" entry per (path, error) pair of the report, in report
\* order, joined by single newlines, with no leading tab and no trailing
\* newline; one "name" length violation gives exactly
\* "Validation errors in fields:\nname: length is lower than 5".
C13_GardeDefaultBody ==
    \A r \in Req :
        (DefaultAnswered(r) /\ pipeline[r].kind = "garde") =>
            LET report == ValidationOf(r).e
                resp == output[r].res.err.response
                lines == ErrorLines(resp.body)
            IN /\ resp.status = 400
               /\ SubSeq(resp.body, 1, 2) = <<"Validation errors in fields:", "\n">>
               /\ Len(lines) = Len(report)
               /\ CountNL(resp.body) = Len(report)
               /\ resp.body[Len(resp.body)] # "\n"
               /\ \A i \in 1..Len(lines) :
                     /\ lines[i] = report[i].path \o <<": ", report[i].error.message>>
                     /\ lines[i][1] # "\t"
               /\ OneTopLevelViolation(r) =>
                     resp.body = <<"Validation errors in fields:", "\n",
                                   "name", ": ", "length is lower than 5">>

\* C13 witness: the garde backend rendered a report of three entries with
\* nested paths
C13_Witness ==
    \E r \in Req :
        /\ DefaultAnswered(r) /\ pipeline[r].kind = "garde"
        /\ Len(ValidationOf(r).e) = 3
        /\ CountNL(output[r].res.err.response.body) = 3

(* ======================= claims about the flattener ==================== *)

\* one step of the way from the root of a tree to a violation: a field, and
\* the index of the element when the field is a sequence (-1 otherwise)
RouteStep(field, index) == [field |-> field, index |-> index]

RECURSIVE Violations(_, _)
\* the violations of a tree, each with its route from the root, its error and
\* the error's position in its field's list -- as a set, in no order
Violations(t, prefix) ==
    UNION {LET fe == t[i]
               here == prefix \o <<RouteStep(fe.field, -1)>>
           IN CASE fe.kind = "Field" ->
                       {[route |-> here, error |-> fe.errors[j], pos |-> j] :
                            j \in 1..Len(fe.errors)}
                [] fe.kind = "Struct" -> Violations(fe.sub, here)
                [] OTHER ->
                       UNION {Violations(e.errors, prefix \o <<RouteStep(fe.field, e.index)>>) :
                                  e \in fe.list} :
           i \in 1..Len(t)}

RECURSIVE PathOfRoute(_)
\* the path of a route by the stated rule: components left to right from the
\* root, "." before every field below the root, "[i]" after a sequence field
PathOfRoute(route) ==
    IF route = <<>> THEN <<>>
    ELSE LET n == Len(route)
             last == route[n]
         IN PathOfRoute(SubSeq(route, 1, n - 1))
            \o (IF n > 1 THEN <<".">> ELSE <<>>)
            \o <<last.field>>
            \o (IF last.index >= 0 THEN <<"[", ToString(last.index), "]">> ELSE <<>>)

\* the tree holds a violation on index 2 of `items` inside `order`
HasOrderItems2 ==
    \E v \in Violations(errorTree, <<>>) :
        /\ Len(v.route) >= 2
        /\ v.route[1] = RouteStep("order", -1)
        /\ v.route[2] = RouteStep("items", 2)

\* C14 as stated: a violation on index 2 of the sequence field `items` inside
\* the struct field `order` is emitted with the path "order.items[2]".
C14_AsStated ==
    \A c \in 1..Len(flattened) :
        HasOrderItems2 =>
            \E i \in 1..Len(flattened[c].out) :
                flattened[c].out[i][2] = <<"order", ".", "items", "[", "2", "]">>

\* C14 amended: the entries of a tree's violations carry exactly the paths the
\* rule gives -- components left to right from the root, "." before every field
\* below the root, "[i]" after a sequence field for index i; a violation on
\* index 2 of `items` inside `order` lies on a field of that element and is
\* emitted with the path "order.items[2].<field>", never "order.items[2]".
C14_PathsCompose ==
    \A c \in 1..Len(flattened) :
        LET out == flattened[c].out
            vs == Violations(errorTree, <<>>)
        IN /\ Len(out) = Cardinality(vs)
           /\ {<<out[i][2], out[i][3]>> : i \in 1..Len(out)}
                  = {<<PathOfRoute(v.route), v.error>> : v \in vs}
           /\ HasOrderItems2 =>
                 /\ \E i \in 1..Len(out) :
                       out[i][2] = <<"order", ".", "items", "[", "2", "]", ".", "qty">>
                 /\ \A i \in 1..Len(out) :
                       out[i][2] # <<"order", ".", "items", "[", "2", "]">>

\* C14 witness: a tree with violations on indices 0 and 2 of `items` inside
\* `order` and on the top-level field `name` has been flattened
C14_Witness ==
    /\ Len(flattened) >= 1
    /\ HasOrderItems2
    /\ \E v \in Violations(errorTree, <<>>) :
          Len(v.route) >= 2 /\ v.route[2] = RouteStep("items", 0)
    /\ \E v \in Violations(errorTree, <<>>) : v.route = <<RouteStep("name", -1)>>

\* a call of the flattener leaves the caller's tree as it was
TreeUntouched == errorTree' = errorTree

\* the calls of one copy of the flattener on the tree all returned the same
\* ordered sequence of (depth, path, error) entries
SameOutputEveryCall ==
    \A c1, c2 \in 1..Len(flattened) :
        flattened[c1].kind = flattened[c2].kind =>
            /\ Len(flattened[c1].out) = Len(flattened[c2].out)
            /\ \A i \in 1..Len(flattened[c1].out) :
                  flattened[c1].out[i] = flattened[c2].out[i]

EntryViolation(vs, entry) ==
    CHOOSE v \in vs : PathOfRoute(v.route) = entry[2] /\ v.error = entry[3]

\* the number of leading steps two routes share
CommonLen(r1, r2) ==
    Max({n \in 0..Len(r1) : n <= Len(r2) /\ SubSeq(r1, 1, n) = SubSeq(r2, 1, n)})

RECURSIVE LevelAt(_, _)
\* the fields, in iteration order, of the level of tree t that a route leads to
LevelAt(t, route) ==
    IF route = <<>> THEN t
    ELSE LET fe == t[CHOOSE i \in 1..Len(t) : t[i].field = route[1].field]
         IN IF fe.kind = "Struct" THEN LevelAt(fe.sub, Tail(route))
            ELSE LevelAt((CHOOSE e \in fe.list : e.index = route[1].index).errors,
                         Tail(route))

\* position of a field in its level's iteration order
PosOf(level, field) == CHOOSE i \in 1..Len(level) : level[i].field = field

\* route r passes through field f of the level that prefix p leads to
Within(r, p, f) ==
    /\ Len(r) > Len(p)
    /\ SubSeq(r, 1, Len(p)) = p
    /\ r[Len(p) + 1].field = f

\* the entries of `out` are in depth-first order of the tree
DepthFirst(out) ==
    LET vs == Violations(errorTree, <<>>)
        v == SubSeq([i \in 1..Len(out) |-> EntryViolation(vs, out[i])], 1, Len(out))
    IN /\ \A i, j \in 1..Len(out) :
             i < j =>
                 LET ri == v[i].route
                     rj == v[j].route
                     n == CommonLen(ri, rj)
                 IN IF ri = rj THEN v[i].pos < v[j].pos
                    ELSE /\ n < Len(ri) /\ n < Len(rj)
                         /\ IF ri[n + 1].field # rj[n + 1].field
                            THEN LET level == LevelAt(errorTree, SubSeq(ri, 1, n))
                                 IN PosOf(level, ri[n + 1].field) < PosOf(level, rj[n + 1].field)
                            ELSE ri[n + 1].index < rj[n + 1].index
       /\ \A i, k \in 1..Len(out) :
             i < k =>
                 \A n \in 0..(Len(v[i].route) - 1) :
                     LET p == SubSeq(v[i].route, 1, n)
                         f == v[i].route[n + 1].field
                     IN Within(v[k].route, p, f) =>
                            \A j \in (i + 1)..(k - 1) : Within(v[j].route, p, f)

\* C16: flattening order is depth-first: the entries of one field's subtree
\* (its own errors, its nested struct, or all its indices) are contiguous and
\* stand in the position of the field in its level's iteration order; the
\* errors of one field keep their order, and the elements of a sequence field
\* are visited in ascending numeric index order.
C16_DepthFirstOrder ==
    flattened # <<>> => DepthFirst(flattened[Len(flattened)].out)

\* C16 witness: a flattened tree in which a field with two errors comes before
\* a struct whose sequence has violations on several indices
C16_Witness ==
    /\ Len(flattened) >= 1
    /\ Len(errorTree) = 2
    /\ errorTree[1].kind = "Field" /\ Len(errorTree[1].errors) = 2
    /\ errorTree[2].kind = "Struct"
    /\ \E i \in 1..Len(errorTree[2].sub) :
          /\ errorTree[2].sub[i].kind = "List"
          /\ Cardinality(errorTree[2].sub[i].list) >= 2
          /\ i = 2

\* the number of "." of a path
CountDots(path) == Cardinality({k \in 1..Len(path) : path[k] = "."})

\* C17: the depth of an entry counts the nesting levels crossed: the errors of
\* a top-level field have depth 0, and each descent into a nested struct field
\* or into an index of a sequence field adds exactly one to the depth of
\* everything beneath it.
C17_DepthCountsLevels ==
    \A c \in 1..Len(flattened) :
        LET out == flattened[c].out
            vs == Violations(errorTree, <<>>)
        IN /\ {<<out[i][1], out[i][2], out[i][3]>> : i \in 1..Len(out)}
                  = {<<Len(v.route) - 1, PathOfRoute(v.route), v.error>> : v \in vs}
           /\ \A i \in 1..Len(out) :
                 /\ out[i][1] = CountDots(out[i][2])
                 /\ Len(out[i][2]) = 1 => out[i][1] = 0
                 /\ out[i][2] = <<"order", ".", "email">> => out[i][1] = 1
                 /\ (Len(out[i][2]) >= 4 /\ out[i][2][3] = "items") => out[i][1] = 2

\* C17 witness: a flattened tree with entries of depth 0, 1 and 2
C17_Witness ==
    /\ Len(flattened) >= 1
    /\ \A d \in 0..2 :
          \E i \in 1..Len(flattened[1].out) : flattened[1].out[i][1] = d

(* ======================== claims about the wrapper ===================== *)

OwnDebug(x, alternate) == ExamplePayload_fmt(x, alternate)

\* C19 as stated: Debug-printing Validated(x) writes "Validated(", x's own
\* debug representation and ")".
C19_AsStated ==
    printed # <<>> =>
        printed[1].text =
            <<"Validated", "(">> \o OwnDebug(printed[1].of, printed[1].alternate) \o <<")">>

\* C19 amended: with the plain format ({:?}) Debug-printing Validated(x)
\* writes "Validated(", x's own debug representation and ")"; with the
\* alternate format ({:#?}) it writes "Validated(" and a newline, the lines of
\* x's own pretty representation each indented by four spaces, a comma and a
\* newline after the last of them, and ")".
C19_DebugTagsTheWrapper ==
    printed # <<>> =>
        LET own == OwnDebug(printed[1].of, printed[1].alternate)
            lines == Lines(printed[1].text)
            ownLines == Lines(own)
        IN IF ~printed[1].alternate
           THEN printed[1].text = <<"Validated", "(">> \o own \o <<")">>
           ELSE /\ Len(lines) = Len(ownLines) + 2
                /\ lines[1] = <<"Validated", "(">>
                /\ \A i \in 1..Len(ownLines) :
                      lines[i + 1] = <<"    ">> \o ownLines[i]
                                     \o (IF i = Len(ownLines) THEN <<",">> ELSE <<>>)
                /\ lines[Len(lines)] = <<")">>

\* C19 witness: a wrapper around ExamplePayload { name: "abcd" } was printed
\* with the plain format
C19_Witness ==
    /\ printed # <<>> /\ ~printed[1].alternate
    /\ printed[1].text = <<"Validated", "(", "ExamplePayload", " { ", "name", ": ",
                           "\"", "abcd", "\"", " }", ")">>

(* ================= claims about the time of the lookup ================= *)

\* C20: the registry is looked up once per request, at from_request, before the
\* inner extraction is polled, and the result is kept in the pipeline: a
\* registration, re-registration or removal made while the pipeline is pending
\* is not observed -- on validation failure the pipeline invokes the handler
\* captured at creation, or builds the default error if none was captured.
C20_LookupAtCreation ==
    \A r \in Req :
        Alive(r) =>
            /\ pipeline[r].error_handler = lookedUp[r]
            /\ lastInner[r] = NotPolled => pipeline[r].fut = "InFlight"
            /\ (InnerOk(r) /\ ~ValidationOf(r).ok) =>
                  IF lookedUp[r] # None
                  THEN /\ handled[r] = <<HandlerCall(lookedUp[r], ValidationOf(r).e, r)>>
                       /\ output[r].res.err.origin = "handler"
                       /\ output[r].res.err.by = lookedUp[r]
                       /\ built[r] = <<>>
                  ELSE /\ handled[r] = <<>>
                       /\ output[r].res.err.origin = "default"
                       /\ built[r] = <<ValidationOf(r).e>>

\* C20 witness: a legacy pipeline captured h1, suspended, had its slot given
\* another handler or emptied, and then failed validation through h1
C20_Witness ==
    \E r \in Req :
        /\ Alive(r) /\ pipeline[r].kind = "legacy"
        /\ lookedUp[r] = "h1" /\ suspended[r]
        /\ app_data[SlotOf(pipeline[r].kind)] # "h1"
        /\ InnerOk(r) /\ Len(handled[r]) = 1
        /\ handled[r][1].handler = "h1"

(* =================== claims about the pipeline's course ================ *)

\* C21: per request the inner extraction resolves, then validation runs, then,
\* only if validation failed, the handler or the default branch runs; over the
\* polls of a pipeline validation is invoked exactly once when the extraction
\* succeeded and never otherwise, and the handler exactly once when the
\* extraction succeeded, validation failed and a handler was captured, never
\* otherwise; nothing is retried.
C21_OncePerRequestInOrder ==
    \A r \in Req :
        /\ Len(validated[r]) <= 1
        /\ Len(handled[r]) <= 1
        /\ Len(built[r]) <= 1
        /\ lastInner[r].state # "Ready" =>
              (validated[r] = <<>> /\ handled[r] = <<>> /\ built[r] = <<>>)
        /\ InnerErr(r) => (validated[r] = <<>> /\ handled[r] = <<>> /\ built[r] = <<>>)
        /\ InnerOk(r) =>
              /\ validated[r] = <<Deref(DataOf(r))>>
              /\ ValidationOf(r).ok => (handled[r] = <<>> /\ built[r] = <<>>)
              /\ ~ValidationOf(r).ok =>
                    /\ Len(handled[r]) = (IF lookedUp[r] # None THEN 1 ELSE 0)
                    /\ Len(built[r]) = (IF lookedUp[r] # None THEN 0 ELSE 1)
                    /\ \A i \in 1..Len(handled[r]) :
                          handled[r][i].payload = ValidationOf(r).e
                    /\ \A i \in 1..Len(built[r]) : built[r][i] = ValidationOf(r).e
        /\ (handled[r] # <<>> \/ built[r] # <<>>) => validated[r] # <<>>

\* C21 witness: a garde pipeline that had been polled while its extraction was
\* pending validated once and called its handler once
C21_Witness ==
    \E r \in Req :
        /\ pipeline[r].kind = "garde" /\ suspended[r] /\ life[r] = "ready"
        /\ Len(validated[r]) = 1 /\ Len(handled[r]) = 1 /\ built[r] = <<>>

\* the four ways a pipeline can resolve
IsValidated(res) == res.ok /\ res.err = NoError /\ Len(res.value) = 1
IsExtractionFailed(res) == ~res.ok /\ res.err.origin = "extraction"
IsDefaultFailed(res) == ~res.ok /\ res.err.origin = "default"
IsHandlerError(res) == ~res.ok /\ res.err.origin = "handler"

\* how many of the four outcomes a result is
OutcomeCount(res) ==
    Cardinality({c \in 1..4 :
        CASE c = 1 -> IsValidated(res)
          [] c = 2 -> IsExtractionFailed(res)
          [] c = 3 -> IsDefaultFailed(res)
          [] OTHER -> IsHandlerError(res)})

\* the outcome decided by the inner extraction's result, the validation result
\* and whether a handler was captured
DecidedOutcome(innerOk, validOk, captured) ==
    IF ~innerOk THEN "ExtractionFailed"
    ELSE IF validOk THEN "Validated"
    ELSE IF captured THEN "HandlerError"
    ELSE "ValidationFailed"

\* the outcome a result is
OutcomeOf(res) ==
    CASE IsValidated(res) -> "Validated"
      [] IsExtractionFailed(res) -> "ExtractionFailed"
      [] IsDefaultFailed(res) -> "ValidationFailed"
      [] IsHandlerError(res) -> "HandlerError"
      [] OTHER -> "none"

\* C22: a pipeline that resolves ends in exactly one of four outcomes --
\* Ok(Validated value), the inner extraction's error, the default validation
\* error, the handler's error -- and which one is decided by the inner
\* extraction's result, the validation result and whether a handler was
\* captured, by nothing else.
C22_FourOutcomes ==
    \A r \in Req :
        life[r] = "ready" =>
            LET res == output[r].res
                validOk == IF InnerOk(r) THEN ValidationOf(r).ok ELSE FALSE
            IN /\ output[r].state = "Ready"
               /\ OutcomeCount(res) = 1
               /\ OutcomeOf(res) =
                      DecidedOutcome(InnerOk(r), validOk, pipeline[r].error_handler # None)
               /\ IsDefaultFailed(res) =>
                      res.err.response = error_response(pipeline[r].kind, ValidationOf(r).e)
               /\ IsExtractionFailed(res) => res.err.by = lastInner[r].res.err.by

\* C22 witness: a validator pipeline resolved to the default validation error
\* while handlers were registered for other kinds only
C22_Witness ==
    \E r \in Req :
        /\ life[r] = "ready" /\ pipeline[r].kind = "validator"
        /\ IsDefaultFailed(output[r].res)
        /\ pipeline[r].error_handler = None
        /\ \E s \in Slots : app_data[s] # None

\* C23: if the inner extraction eventually resolves and the pipeline keeps
\* being polled, the pipeline eventually resolves to a result of its request:
\* no failure leaves it pending or stops the application from serving.
C23_EventuallyResolves ==
    \A r \in LiveReq : (life[r] = "pending") ~> (life[r] = "ready")

\* C23 witness: a pipeline that had suspended while its extraction was pending
\* ended in the inner extraction's error, and the application still serves
C23_Witness ==
    \E r \in Req :
        /\ life[r] = "ready" /\ suspended[r]
        /\ IsExtractionFailed(output[r].res)
        /\ phase = "serving"

\* the state a request owns: its pipeline and what it has done and returned
Local(r) ==
    <<pipeline[r], life[r], lastInner[r], output[r], suspended[r], validated[r],
      handled[r], built[r]>>

\* a step changes the state of at most one request, and never the handlers
OneRequestPerStep ==
    /\ \A r1, r2 \in Req : (r1 # r2 /\ Local(r1)' # Local(r1)) => Local(r2)' = Local(r2)
    /\ phase = "serving" => app_data' = app_data

\* every resolved pipeline has the outcome it would have alone: the one its own
\* extraction result, validation result and captured handler give
OutcomeIsOwn ==
    \A r \in Req :
        life[r] = "ready" =>
            LET res == output[r].res
                h == pipeline[r].error_handler
                validOk == IF InnerOk(r) THEN ValidationOf(r).ok ELSE FALSE
            IN /\ OutcomeOf(res) = DecidedOutcome(InnerOk(r), validOk, h # None)
               /\ IsValidated(res) => res.value = Validated(DataOf(r))
               /\ IsHandlerError(res) =>
                     /\ res.err = call_handler(h, ValidationOf(r).e, r)
                     /\ handled[r] = <<HandlerCall(h, ValidationOf(r).e, r)>>
               /\ IsDefaultFailed(res) =>
                     /\ res.err.response = error_response(pipeline[r].kind, ValidationOf(r).e)
                     /\ handled[r] = <<>>

\* C24: concurrent requests are independent: in every interleaving of the polls
\* of the pipelines of one application a step touches one pipeline only, and
\* each pipeline's outcome is the one its own extraction result, its own
\* validation result and the handler it captured give; only the handler value,
\* never written, is shared and may be invoked by several requests.
C24_RequestsAreIndependent == [][OneRequestPerStep]_vars /\ []OutcomeIsOwn

\* C24 witness: two requests, polled in turn, resolved differently -- one
\* through the shared handler, the other, of a kind with no handler, to the
\* default error -- the second created before the first resolved
C24_Witness ==
    \E r1, r2 \in Req :
        /\ r1 # r2
        /\ life[r1] = "ready" /\ life[r2] = "ready"
        /\ suspended[r1] /\ suspended[r2]
        /\ IsHandlerError(output[r1].res) /\ IsDefaultFailed(output[r2].res)

\* C24 witness, continued: the same handler value was invoked by two requests
C24_SharedHandlerInvokedTwice ==
    \E r1, r2 \in Req :
        /\ r1 # r2
        /\ Len(handled[r1]) = 1 /\ Len(handled[r2]) = 1
        /\ handled[r1][1].handler = handled[r2][1].handler

\* a custom pipeline resolved on a value whose validate returned Err(vec![])
EmptyErrList(r) ==
    /\ life[r] = "ready"
    /\ pipeline[r].kind = "custom"
    /\ InnerOk(r)
    /\ validate_custom(Deref(DataOf(r))) = Err(<<>>)

\* C25: in the custom backend Err with an empty error list is a validation
\* failure: the pipeline never yields Validated for it; with no handler the
\* response is 400 with the body "Validation errors in fields:" plus newline
\* and no error line; with a handler the handler is invoked with the empty
\* list.
C25_EmptyErrListIsFailure ==
    \A r \in Req :
        EmptyErrList(r) =>
            LET res == output[r].res
                h == pipeline[r].error_handler
            IN /\ ~IsValidated(res)
               /\ h = None =>
                     /\ res.err.response =
                            [status |-> 400,
                             body |-> <<"Validation errors in fields:", "\n">>]
                     /\ ErrorLines(res.err.response.body) = <<>>
                     /\ handled[r] = <<>>
               /\ h # None =>
                     /\ handled[r] = <<[handler |-> h, payload |-> <<>>, req |-> r]>>
                     /\ res.err = call_handler(h, <<>>, r)

\* C25 witness: the empty list answered with the default response
C25_Witness ==
    \E r \in Req :
        /\ EmptyErrList(r)
        /\ pipeline[r].error_handler = None
        /\ built[r] = <<<<>>>>
        /\ output[r].res.err.response.status = 400

\* C25 witness, continued: the empty list handed to a handler
C25_HandlerGetsEmptyList ==
    \E r \in Req :
        /\ EmptyErrList(r)
        /\ pipeline[r].error_handler # None
        /\ Len(handled[r]) = 1 /\ handled[r][1].payload = <<>>

\* two of the four pipelines run under the claim's hypotheses: the same
\* handler presence and, on the value both decoded, the same validation result
SameConditions(r1, r2) ==
    /\ life[r1] # "new" /\ life[r2] # "new"
    /\ (pipeline[r1].error_handler = None) = (pipeline[r2].error_handler = None)
    /\ lastInner[r1] = lastInner[r2]
    /\ InnerOk(r1) => ValidationOf(r1).ok = ValidationOf(r2).ok

\* C26: the four pipeline implementations are the same state machine: run side
\* by side on the same inner poll results, with the same validation outcome
\* and the same handler presence, they return Pending and Ready in the same
\* polls and end in the same outcome class; a success carries the same value,
\* an extraction error the same error, a default error the same status and
\* header: only the failure payload and the default body lines differ.
C26_SameStateMachine ==
    \A r1, r2 \in SideReq :
        SameConditions(r1, r2) =>
            /\ life[r1] = life[r2]
            /\ output[r1].state = output[r2].state
            /\ suspended[r1] = suspended[r2]
            /\ pipeline[r1].fut = pipeline[r2].fut
            /\ Len(validated[r1]) = Len(validated[r2])
            /\ Len(handled[r1]) = Len(handled[r2])
            /\ Len(built[r1]) = Len(built[r2])
            /\ life[r1] = "ready" =>
                 LET res1 == output[r1].res
                     res2 == output[r2].res
                 IN /\ OutcomeOf(res1) = OutcomeOf(res2)
                    /\ OutcomeOf(res1) \in {"Validated", "ExtractionFailed",
                                            "HandlerError", "ValidationFailed"}
                    /\ IsValidated(res1) => res1.value = res2.value
                    /\ IsExtractionFailed(res1) => res1.err = res2.err
                    /\ IsDefaultFailed(res1) =>
                          /\ res1.err.response.status = 400
                          /\ res2.err.response.status = 400
                          /\ SubSeq(res1.err.response.body, 1, 2)
                               = SubSeq(res2.err.response.body, 1, 2)

\* C26 witness: the four copies, none with a handler, suspended in the same
\* poll and resolved in the same poll to the default error, whose body the
\* validator and the garde copy word differently
C26_Witness ==
    /\ \A r \in SideReq :
          /\ life[r] = "ready"
          /\ suspended[r]
          /\ pipeline[r].kind = SideKinds[r]
          /\ pipeline[r].error_handler = None
          /\ IsDefaultFailed(output[r].res)
    /\ output[2].res.err.response.body # output[3].res.err.response.body

====
